---- MODULE Spec2Model ----
(***************************************************************************)
(* A model of src/dependencygraph.py: the DependencyGraph container, its   *)
(* parser (_parse), its serializer (to_conll), its loader (load) and its   *)
(* mutation / query operations.                                            *)
(*                                                                         *)
(* Python values are encoded uniformly so that any two of them can be      *)
(* compared: a value is a record [k, s, n] with k the kind ("str", "int",  *)
(* "none", or "absent" for a key the dict does not hold).  A text is a     *)
(* sequence of tokens: the token "\n" is a newline, every other token is   *)
(* one whitespace-delimited cell.                                          *)
(***************************************************************************)
EXTENDS Integers, Sequences, FiniteSets, TLC

VARIABLES nodes, root, pre, call, ret, steps,
          input, zero_based, idx, cell_extractor, pc, err,
          file, nblocks, blocks, graphs

vars == <<nodes, root, pre, call, ret, steps,
          input, zero_based, idx, cell_extractor, pc, err,
          file, nblocks, blocks, graphs>>

(* ------------------------------ bounds -------------------------------- *)
MaxAddr == 2
MaxSteps == 2
MaxSent == 2
MaxLines == 3
MaxBlocks == 2
MaxTrail == 2

Addr == 0..MaxAddr

(* --------------------------- Python values ---------------------------- *)
NoneV == [k |-> "none", s |-> "", n |-> 0]
AbsentV == [k |-> "absent", s |-> "", n |-> 0]
StrV(s) == [k |-> "str", s |-> s, n |-> 0]
IntV(n) == [k |-> "int", s |-> "", n |-> n]

Digits == <<"0", "1", "2", "3", "4", "5", "6", "7", "8", "9">>

IsDigit(c) == \E d \in 1..10 : Digits[d] = c

DigitVal(c) == (CHOOSE d \in 1..10 : Digits[d] = c) - 1

RECURSIVE DigitsVal(_)
DigitsVal(s) ==
    IF Len(s) = 0 THEN 0
    ELSE 10 * DigitsVal(SubSeq(s, 1, Len(s) - 1)) + DigitVal(SubSeq(s, Len(s), Len(s)))

AllDigits(s) == Len(s) > 0 /\ \A i \in 1..Len(s) : IsDigit(SubSeq(s, i, i))

HasSign(s) == Len(s) > 0 /\ SubSeq(s, 1, 1) \in {"+", "-"}

Unsigned(s) == IF HasSign(s) THEN SubSeq(s, 2, Len(s)) ELSE s

\* int(head): whether the cell is an integer literal, and its value
IsIntLit(s) == AllDigits(Unsigned(s))

IntOf(s) ==
    IF HasSign(s) /\ SubSeq(s, 1, 1) = "-" THEN 0 - DigitsVal(Unsigned(s))
    ELSE DigitsVal(Unsigned(s))

RECURSIVE NatStr(_)
NatStr(n) == IF n < 10 THEN Digits[n + 1] ELSE NatStr(n \div 10) \o Digits[(n % 10) + 1]

\* str(n) of an integer, as '{head}' and '{i}' format it
IntStr(n) == IF n < 0 THEN "-" \o NatStr(0 - n) ELSE NatStr(n)

\* str.format of a present value
Fmt(v) == IF v.k = "int" THEN IntStr(v.n) ELSE IF v.k = "none" THEN "None" ELSE v.s

(* ------------------------- the deps container ------------------------- *)
\* A dict is the sequence of its (key, list) entries in insertion order; after
\* redirect_arcs the container is a plain list, kept in items.
EmptyDeps == [shape |-> "dict", entries |-> <<>>, items |-> <<>>]

NoDeps == [shape |-> "absent", entries |-> <<>>, items |-> <<>>]

HasKey(d, key) == \E i \in 1..Len(d.entries) : d.entries[i].key = key

KeyIndex(d, key) == CHOOSE i \in 1..Len(d.entries) : d.entries[i].key = key

DictGet(d, key) == IF HasKey(d, key) THEN d.entries[KeyIndex(d, key)].vals ELSE <<>>

\* d[key] on a defaultdict(list) / d.setdefault(key, []): the bucket exists afterwards
DictTouch(d, key) ==
    IF HasKey(d, key) THEN d
    ELSE [d EXCEPT !.entries = Append(@, [key |-> key, vals |-> <<>>])]

\* d[key].append(v)
DictAppend(d, key, v) ==
    LET t == DictTouch(d, key)
        i == KeyIndex(t, key)
    IN  [t EXCEPT !.entries[i].vals = Append(@, v)]

(* ------------------------------- nodes -------------------------------- *)
Placeholder ==
    [address |-> AbsentV, word |-> AbsentV, lemma |-> AbsentV, ctag |-> AbsentV,
     tag |-> AbsentV, feats |-> AbsentV, head |-> AbsentV, rel |-> AbsentV,
     deps |-> EmptyDeps]

TopNode ==
    [Placeholder EXCEPT !.word = NoneV, !.lemma = NoneV, !.ctag = StrV("TOP"),
                        !.tag = StrV("TOP"), !.feats = NoneV, !.rel = StrV("TOP"),
                        !.address = IntV(0)]

\* self.nodes[a] on the defaultdict: the key exists afterwards
Vivify(ns, a) ==
    IF a \in DOMAIN ns THEN ns
    ELSE [x \in (DOMAIN ns) \cup {a} |-> IF x = a THEN Placeholder ELSE ns[x]]

\* dict.update(fields): every key the argument holds overwrites the node's
Update(node, fields) ==
    [address |-> IF fields.address.k = "absent" THEN node.address ELSE fields.address,
     word |-> IF fields.word.k = "absent" THEN node.word ELSE fields.word,
     lemma |-> IF fields.lemma.k = "absent" THEN node.lemma ELSE fields.lemma,
     ctag |-> IF fields.ctag.k = "absent" THEN node.ctag ELSE fields.ctag,
     tag |-> IF fields.tag.k = "absent" THEN node.tag ELSE fields.tag,
     feats |-> IF fields.feats.k = "absent" THEN node.feats ELSE fields.feats,
     head |-> IF fields.head.k = "absent" THEN node.head ELSE fields.head,
     rel |-> IF fields.rel.k = "absent" THEN node.rel ELSE fields.rel,
     deps |-> IF fields.deps.shape = "absent" THEN node.deps ELSE fields.deps]

\* __init__ before any text is parsed
EmptyGraph == [x \in {0} |-> TopNode]

(* -------------------------------- text -------------------------------- *)
NL == "\n"

HasNL(t) == \E i \in 1..Len(t) : t[i] = NL

FirstNL(t) == CHOOSE i \in 1..Len(t) : t[i] = NL /\ \A j \in 1..(i - 1) : t[j] # NL

\* str.split('\n')
RECURSIVE SplitLines(_)
SplitLines(t) ==
    IF ~HasNL(t) THEN <<t>>
    ELSE <<SubSeq(t, 1, FirstNL(t) - 1)>> \o SplitLines(SubSeq(t, FirstNL(t) + 1, Len(t)))

HasSep(t) == \E i \in 1..(Len(t) - 1) : t[i] = NL /\ t[i + 1] = NL

FirstSep(t) ==
    CHOOSE i \in 1..(Len(t) - 1) :
        /\ t[i] = NL /\ t[i + 1] = NL
        /\ \A j \in 1..(i - 1) : ~(t[j] = NL /\ t[j + 1] = NL)

\* str.split('\n\n'): non-overlapping separators, found left to right
RECURSIVE SplitBlocks(_)
SplitBlocks(t) ==
    IF ~HasSep(t) THEN <<t>>
    ELSE <<SubSeq(t, 1, FirstSep(t) - 1)>> \o SplitBlocks(SubSeq(t, FirstSep(t) + 2, Len(t)))

\* lines = (l for l in lines if l): the non-blank lines, each as its cells
RECURSIVE NonBlank(_)
NonBlank(ls) ==
    IF Len(ls) = 0 THEN <<>>
    ELSE IF Len(Head(ls)) = 0 THEN NonBlank(Tail(ls))
    ELSE <<Head(ls)>> \o NonBlank(Tail(ls))

ParseLines(t) == NonBlank(SplitLines(t))

(* ----------------------------- extractors ----------------------------- *)
NoFields ==
    [word |-> "", lemma |-> "", ctag |-> "", tag |-> "", feats |-> "", head |-> "", rel |-> ""]

extract_3_cells(cells) ==
    [word |-> cells[1], lemma |-> cells[1], ctag |-> cells[2], tag |-> cells[2],
     feats |-> "", head |-> cells[3], rel |-> ""]

extract_4_cells(cells) ==
    [word |-> cells[1], lemma |-> cells[1], ctag |-> cells[2], tag |-> cells[2],
     feats |-> "", head |-> cells[3], rel |-> cells[4]]

extract_10_cells(cells) ==
    [word |-> cells[2], lemma |-> cells[3], ctag |-> cells[4], tag |-> cells[5],
     feats |-> cells[6], head |-> cells[7], rel |-> cells[8]]

Supported == {3, 4, 10}

\* the extractor re-detected on every line
SelectExtractorPerLine(ce, nrCells) == IF nrCells \in Supported THEN nrCells ELSE -1

\* cell_extractor after lines 207-214: 0 is None, -1 the unsupported-format ValueError
SelectExtractor(ce, nrCells) ==
    IF ce = 0 THEN (IF nrCells \in Supported THEN nrCells ELSE -1) ELSE ce

\* cell_extractor(cells): the tuple unpacking fails unless the counts agree
Extract(ce, cells) ==
    IF Len(cells) # ce THEN [err |-> "ValueError:unpack", f |-> NoFields]
    ELSE [err |-> "none",
          f |-> IF ce = 3 THEN extract_3_cells(cells)
                ELSE IF ce = 4 THEN extract_4_cells(cells)
                ELSE extract_10_cells(cells)]

(* ------------------------------- _parse ------------------------------- *)
\* One iteration of the loop of lines 203-235; index is the 1-based position
\* of the line among the non-blank lines.
ParseStep(ns, ce, zb, index, cells) ==
    LET ce1 == SelectExtractor(ce, Len(cells))
        ex == Extract(ce1, cells)
        f == ex.f
        head == IntOf(f.head) + (IF zb THEN 1 ELSE 0)
        n1 == Vivify(ns, index)
        n2 == [n1 EXCEPT ![index] =
                  [@ EXCEPT !.address = IntV(index), !.word = StrV(f.word),
                            !.lemma = StrV(f.lemma), !.ctag = StrV(f.ctag),
                            !.tag = StrV(f.tag), !.feats = StrV(f.feats),
                            !.head = IntV(head), !.rel = StrV(f.rel)]]
        n3 == Vivify(n2, head)
    IN  IF ce1 = -1 THEN [nodes |-> ns, ce |-> ce, err |-> "ValueError:unsupported"]
        ELSE IF ex.err # "none" THEN [nodes |-> ns, ce |-> ce1, err |-> ex.err]
        ELSE IF ~IsIntLit(f.head) THEN [nodes |-> ns, ce |-> ce1, err |-> "ValueError:int"]
        ELSE [nodes |-> [n3 EXCEPT ![head].deps = DictAppend(@, StrV(f.rel), index)],
              ce |-> ce1, err |-> "none"]

\* the bucket consulted for the root: every dependent of TOP, whatever its label
RootBucketAnyLabel(ns) ==
    LET d == Vivify(ns, 0)[0].deps
        RECURSIVE Cat(_)
        Cat(i) == IF i > Len(d.entries) THEN <<>> ELSE d.entries[i].vals \o Cat(i + 1)
    IN  Cat(1)

\* self.nodes[0]['deps']['ROOT']
RootBucket(ns) == DictGet(Vivify(ns, 0)[0].deps, StrV("ROOT"))

\* lines 237-243: reading the bucket creates it; root is kept as the address of
\* the node it refers to
ParseFinal(ns) ==
    LET n0 == Vivify(ns, 0)
        n1 == [n0 EXCEPT ![0].deps = DictTouch(@, StrV("ROOT"))]
        b == RootBucket(ns)
    IN  IF Len(b) = 0 THEN [nodes |-> n1, root |-> NoneV, err |-> "DependencyGraphError"]
        ELSE [nodes |-> Vivify(n1, b[1]), root |-> IntV(b[1]), err |-> "none"]

RECURSIVE ParseLoop(_, _, _, _, _)
ParseLoop(ns, ce, zb, done, ls) ==
    IF done = Len(ls) THEN [nodes |-> ns, ce |-> ce, err |-> "none"]
    ELSE LET r == ParseStep(ns, ce, zb, done + 1, ls[done + 1])
         IN  IF r.err # "none" THEN r ELSE ParseLoop(r.nodes, r.ce, zb, done + 1, ls)

\* _parse as a whole
Parse(ns, t, zb) ==
    LET r == ParseLoop(ns, 0, zb, 0, ParseLines(t))
    IN  IF r.err # "none" THEN [nodes |-> r.nodes, root |-> NoneV, err |-> r.err]
        ELSE ParseFinal(r.nodes)

\* DependencyGraph(tree_str, zero_based=zb): an empty string is not parsed
Construct(t, zb) ==
    IF Len(t) = 0 THEN [nodes |-> EmptyGraph, root |-> NoneV, err |-> "none"]
    ELSE Parse(EmptyGraph, t, zb)

\* from_sentence on the (word, tag) pairs the tagger returns
SkeletonNode(i, wt) ==
    [address |-> IntV(i), word |-> StrV(wt[1]), lemma |-> StrV("_"), ctag |-> StrV(wt[2]),
     tag |-> StrV(wt[2]), feats |-> StrV("_"), head |-> StrV("_"), rel |-> StrV("_"),
     deps |-> EmptyDeps]

from_sentence(tagged) ==
    [x \in 0..Len(tagged) |-> IF x = 0 THEN TopNode ELSE SkeletonNode(x, tagged[x])]

(* ------------------------------ to_conll ------------------------------ *)
RECURSIVE SortedKeys(_)
SortedKeys(S) ==
    IF S = {} THEN <<>>
    ELSE LET m == CHOOSE x \in S : \A y \in S : x <= y
         IN  <<m>> \o SortedKeys(S \ {m})

\* the node fields a style's template names
TemplateFields(style) ==
    IF style = 3 THEN {"word", "tag", "head"}
    ELSE IF style = 4 THEN {"word", "tag", "head", "rel"}
    ELSE {"word", "lemma", "ctag", "tag", "feats", "head", "rel"}

FieldOf(node, name) ==
    CASE name = "word" -> node.word
      [] name = "lemma" -> node.lemma
      [] name = "ctag" -> node.ctag
      [] name = "tag" -> node.tag
      [] name = "feats" -> node.feats
      [] name = "head" -> node.head
      [] name = "rel" -> node.rel

\* template.format(i=i, **node), as the cells between the tabs
FormatLine(style, i, node) ==
    IF style = 3 THEN <<Fmt(node.word), Fmt(node.tag), Fmt(node.head)>>
    ELSE IF style = 4 THEN <<Fmt(node.word), Fmt(node.tag), Fmt(node.head), Fmt(node.rel)>>
    ELSE <<IntStr(i), Fmt(node.word), Fmt(node.lemma), Fmt(node.ctag), Fmt(node.tag),
           Fmt(node.feats), Fmt(node.head), Fmt(node.rel), "_", "_">>

\* line 267: the nodes in ascending address order, those tagged 'TOP' left out
RECURSIVE RenderFrom(_, _, _, _)
RenderFrom(ns, style, keys, i) ==
    IF i > Len(keys) THEN <<>>
    ELSE IF ns[keys[i]].tag = StrV("TOP") THEN RenderFrom(ns, style, keys, i + 1)
    ELSE <<FormatLine(style, keys[i], ns[keys[i]])>> \o RenderFrom(ns, style, keys, i + 1)

\* a KeyError: a node without 'tag', or a rendered node without a template field
RenderFails(ns, style) ==
    \E a \in DOMAIN ns :
        \/ ns[a].tag.k = "absent"
        \/ /\ ns[a].tag # StrV("TOP")
           /\ \E name \in TemplateFields(style) : FieldOf(ns[a], name).k = "absent"

\* to_conll(style): err is the exception raised, lines the text returned, one
\* entry per newline-terminated line
to_conll(ns, style) ==
    IF style \notin Supported THEN [err |-> "ValueError:unsupported", lines |-> <<>>]
    ELSE IF RenderFails(ns, style) THEN [err |-> "KeyError", lines |-> <<>>]
    ELSE [err |-> "none", lines |-> RenderFrom(ns, style, SortedKeys(DOMAIN ns), 1)]

(* ------------------------ mutation and queries ------------------------ *)
\* remove_by_address: del on a missing key raises and changes nothing
remove_by_address(ns, a) ==
    IF a \notin DOMAIN ns THEN [nodes |-> ns, err |-> "KeyError"]
    ELSE [nodes |-> [x \in (DOMAIN ns) \ {a} |-> ns[x]], err |-> "none"]

\* what iterating node['deps'] yields: the keys of a dict, the items of a list
DepsIter(d) ==
    IF d.shape = "dict" THEN [i \in 1..Len(d.entries) |-> d.entries[i].key] ELSE d.items

\* dep in originals, for originals a collection of addresses
InOriginals(dep, originals) == dep.k = "int" /\ dep.n \in originals

\* redirect_arcs: every node's deps becomes the list built from iterating it
redirect_arcs(ns, originals, redirect) ==
    [a \in DOMAIN ns |->
        [ns[a] EXCEPT !.deps =
            [shape |-> "list", entries |-> <<>>,
             items |-> [i \in 1..Len(DepsIter(ns[a].deps)) |->
                          IF InOriginals(DepsIter(ns[a].deps)[i], originals)
                          THEN IntV(redirect)
                          ELSE DepsIter(ns[a].deps)[i]]]]]

\* add_arc: the label is read from the dependent's own 'rel'
add_arc(ns, head_address, mod_address) ==
    LET n1 == Vivify(ns, mod_address)
        relation == n1[mod_address].rel
        n2 == Vivify(n1, head_address)
    IN  IF relation.k = "absent" THEN [nodes |-> n1, err |-> "KeyError"]
        ELSE IF n2[head_address].deps.shape = "list"
        THEN [nodes |-> n2, err |-> "AttributeError"]
        ELSE [nodes |-> [n2 EXCEPT ![head_address].deps = DictAppend(@, relation, mod_address)],
              err |-> "none"]

\* a lookup that leaves the mapping alone
get_by_address_no_insert(ns, a) == [nodes |-> ns, present |-> a \in DOMAIN ns]

\* get_by_address: the defaultdict lookup inserts a missing key
get_by_address(ns, a) == [nodes |-> Vivify(ns, a), present |-> TRUE]

contains_address(ns, a) == a \in DOMAIN ns

\* add_node that updates whether or not the address is taken
add_node_overwrite(ns, node) ==
    [Vivify(ns, node.address.n) EXCEPT ![node.address.n] = Update(@, node)]

\* add_node: only an address that is not yet a key is populated
add_node(ns, node) ==
    IF ~contains_address(ns, node.address.n)
    THEN [Vivify(ns, node.address.n) EXCEPT ![node.address.n] = Update(@, node)]
    ELSE ns

RECURSIVE CountIn(_, _, _)
CountIn(vals, index, left) ==
    IF Len(vals) = 0 THEN 0
    ELSE (IF (left /\ Head(vals) < index) \/ (~left /\ Head(vals) > index) THEN 1 ELSE 0)
         + CountIn(Tail(vals), index, left)

RECURSIVE CountBuckets(_, _, _)
CountBuckets(entries, index, left) ==
    IF Len(entries) = 0 THEN 0
    ELSE (IF Head(entries).key # StrV("_") THEN CountIn(Head(entries).vals, index, left) ELSE 0)
         + CountBuckets(Tail(entries), index, left)

\* the first item of a flattened deps that is not '_' is used as a list index:
\* a string raises TypeError; an integer raises IndexError when out of range
\* and otherwise yields an item that cannot be iterated or compared
ListIndexError(items) ==
    LET i == CHOOSE j \in 1..Len(items) :
                 items[j] # StrV("_") /\ \A h \in 1..(j - 1) : items[h] = StrV("_")
    IN  IF items[i].k = "int" /\ (items[i].n >= Len(items) \/ items[i].n < 0 - Len(items))
        THEN "IndexError" ELSE "TypeError"

\* left_children (left = TRUE) and right_children (left = FALSE)
children(ns, node_index, left) ==
    LET n1 == Vivify(ns, node_index)
        d == n1[node_index].deps
        index == n1[node_index].address
    IN  IF index.k = "absent" THEN [nodes |-> n1, err |-> "KeyError", n |-> 0]
        ELSE IF d.shape = "dict"
        THEN [nodes |-> n1, err |-> "none", n |-> CountBuckets(d.entries, index.n, left)]
        ELSE IF \A j \in 1..Len(d.items) : d.items[j] = StrV("_")
        THEN [nodes |-> n1, err |-> "none", n |-> 0]
        ELSE [nodes |-> n1, err |-> ListIndexError(d.items), n |-> 0]

left_children(ns, node_index) == children(ns, node_index, TRUE)

right_children(ns, node_index) == children(ns, node_index, FALSE)

(* ------------------------------- inputs ------------------------------- *)
RECURSIVE JoinNL(_)
JoinNL(ls) ==
    IF Len(ls) = 0 THEN <<>>
    ELSE IF Len(ls) = 1 THEN ls[1]
    ELSE ls[1] \o <<NL>> \o JoinNL(Tail(ls))

SeqsUpTo(S, n) == UNION {[1..m -> S] : m \in 1..n}

L10(tag, head, rel) == <<"9", "w", "l", "C", tag, "f", head, rel, "_", "_">>

Lines3 == {<<"w", "NN", "0">>, <<"w", "NN", "1">>}

Lines4 ==
    {<<"w", "NN", "0", "ROOT">>, <<"w", "NN", "0", "dep">>, <<"w", "NN", "2", "ROOT">>,
     <<"v", "VB", "1", "dep">>, <<"v", "VB", "x", "dep">>}

Lines10 ==
    {L10("NN", "0", "ROOT"), L10("NN", "1", "dep"), L10("NN", "01", "dep"),
     L10("NN", "3", "dep"), L10("NN", "-1", "ROOT"), L10("TOP", "0", "ROOT"),
     L10("TOP", "1", "dep")}

LinesBad == {<<"w", "NN">>}

Blank == <<>>

InputLines == Lines3 \cup Lines4 \cup Lines10 \cup LinesBad \cup {Blank}

Texts == {JoinNL(ls) : ls \in SeqsUpTo(InputLines, MaxLines)}

\* the texts the graphs of the mutation machine are constructed from
SeedTexts ==
    {<<"w", "NN", "0", "ROOT">>,
     <<"w", "NN", "0", "ROOT", NL, "v", "VB", "1", "dep">>,
     <<"w", "NN", "2", "dep", NL, "v", "VB", "0", "ROOT">>,
     <<"w", "NN", "0", "ROOT", NL, "v", "VB", "2", "dep">>,
     JoinNL(<<L10("NN", "0", "ROOT"), L10("NN", "1", "dep")>>)}

TaggedPairs == {<<"w", "NN">>}

Sentences == {<<>>} \cup SeqsUpTo(TaggedPairs, MaxSent)

\* the nodes handed to add_node: a tagged token without arcs, and a token
\* with a relation label and no 'deps' key
NodeInputs ==
    {SkeletonNode(a, <<"w", "NN">>) : a \in Addr}
    \cup {[SkeletonNode(a, <<"v", "VB">>) EXCEPT !.rel = StrV("dep"), !.head = IntV(0),
                                                !.deps = NoDeps] : a \in Addr}

Styles == {3, 4, 5, 10}

\* the blocks of a treebank file
FileBlocks ==
    {<<"w", "NN", "0", "ROOT">>,
     <<"w", "NN", "0", "ROOT", NL, "v", "VB", "1", "dep">>,
     <<"w", "NN", "0", "dep">>,
     <<"w", "NN">>}

RECURSIVE JoinBlocks(_)
JoinBlocks(bs) ==
    IF Len(bs) = 0 THEN <<>>
    ELSE IF Len(bs) = 1 THEN bs[1]
    ELSE bs[1] \o <<NL, NL>> \o JoinBlocks(Tail(bs))

Newlines(n) == [i \in 1..n |-> NL]

(* --------------------------- state machines --------------------------- *)
NoCall ==
    [op |-> "none", a |-> 0, b |-> 0, originals |-> {}, node |-> Placeholder, style |-> 0]

NoRet == [err |-> "none", b |-> FALSE, n |-> 0, lines |-> <<>>]

IdleCalls == pre = EmptyGraph /\ call = NoCall /\ ret = NoRet /\ steps = 0

IdleParse ==
    input = <<>> /\ zero_based = FALSE /\ idx = 0 /\ cell_extractor = 0 /\ pc = "api"
    /\ err = "none"

IdleLoad == file = <<>> /\ nblocks = 0 /\ blocks = <<>> /\ graphs = <<>>

parseVars == <<input, zero_based, idx, cell_extractor, pc, err>>

loadVars == <<file, nblocks, blocks, graphs>>

\* -- the graph under its mutation and query operations
Init ==
    /\ \/ nodes = EmptyGraph /\ root = NoneV
       \/ \E t \in SeedTexts :
              /\ Construct(t, FALSE).err = "none"
              /\ nodes = Construct(t, FALSE).nodes
              /\ root = Construct(t, FALSE).root
       \/ \E sent \in Sentences : nodes = from_sentence(sent) /\ root = NoneV
    /\ pre = nodes /\ call = NoCall /\ ret = NoRet /\ steps = 0
    /\ IdleParse /\ IdleLoad

Called(c, ns, r) ==
    /\ steps < MaxSteps
    /\ steps' = steps + 1
    /\ pre' = nodes
    /\ call' = c
    /\ nodes' = ns
    /\ ret' = r
    /\ UNCHANGED <<root, parseVars, loadVars>>

AddNode(node) ==
    Called([NoCall EXCEPT !.op = "add_node", !.a = node.address.n, !.node = node],
           add_node(nodes, node), NoRet)

AddArc(h, m) ==
    Called([NoCall EXCEPT !.op = "add_arc", !.a = h, !.b = m],
           add_arc(nodes, h, m).nodes, [NoRet EXCEPT !.err = add_arc(nodes, h, m).err])

RemoveByAddress(a) ==
    Called([NoCall EXCEPT !.op = "remove_by_address", !.a = a],
           remove_by_address(nodes, a).nodes,
           [NoRet EXCEPT !.err = remove_by_address(nodes, a).err])

RedirectArcs(originals, redirect) ==
    Called([NoCall EXCEPT !.op = "redirect_arcs", !.originals = originals, !.b = redirect],
           redirect_arcs(nodes, originals, redirect), NoRet)

GetByAddress(a) ==
    Called([NoCall EXCEPT !.op = "get_by_address", !.a = a],
           get_by_address(nodes, a).nodes,
           [NoRet EXCEPT !.b = get_by_address(nodes, a).present])

ContainsAddress(a) ==
    Called([NoCall EXCEPT !.op = "contains_address", !.a = a],
           nodes, [NoRet EXCEPT !.b = contains_address(nodes, a)])

LeftChildren(a) ==
    Called([NoCall EXCEPT !.op = "left_children", !.a = a],
           left_children(nodes, a).nodes,
           [NoRet EXCEPT !.err = left_children(nodes, a).err, !.n = left_children(nodes, a).n])

RightChildren(a) ==
    Called([NoCall EXCEPT !.op = "right_children", !.a = a],
           right_children(nodes, a).nodes,
           [NoRet EXCEPT !.err = right_children(nodes, a).err,
                         !.n = right_children(nodes, a).n])

ToConll(style) ==
    Called([NoCall EXCEPT !.op = "to_conll", !.style = style],
           nodes,
           [NoRet EXCEPT !.err = to_conll(nodes, style).err,
                         !.lines = to_conll(nodes, style).lines])

Next ==
    \/ \E node \in NodeInputs : AddNode(node)
    \/ \E h \in Addr, m \in Addr : AddArc(h, m)
    \/ \E a \in Addr : RemoveByAddress(a)
    \/ \E originals \in SUBSET (1..MaxAddr), redirect \in Addr : RedirectArcs(originals, redirect)
    \/ \E a \in Addr : GetByAddress(a)
    \/ \E a \in Addr : ContainsAddress(a)
    \/ \E a \in Addr : LeftChildren(a)
    \/ \E a \in Addr : RightChildren(a)
    \/ \E style \in Styles : ToConll(style)

Spec == Init /\ [][Next]_vars

\* -- the constructor parsing one text, line by line, then serialized
InitParse ==
    /\ input \in Texts
    /\ zero_based \in BOOLEAN
    /\ nodes = EmptyGraph /\ root = NoneV
    /\ idx = 0 /\ cell_extractor = 0 /\ err = "none"
    /\ pc = IF Len(input) = 0 THEN "done" ELSE "loop"
    /\ IdleCalls /\ IdleLoad

ParseLine ==
    /\ pc = "loop"
    /\ idx < Len(ParseLines(input))
    /\ LET r == ParseStep(nodes, cell_extractor, zero_based, idx + 1,
                          ParseLines(input)[idx + 1])
       IN  /\ nodes' = r.nodes
           /\ cell_extractor' = r.ce
           /\ err' = r.err
           /\ pc' = IF r.err = "none" THEN "loop" ELSE "failed"
    /\ idx' = idx + 1
    /\ UNCHANGED <<root, input, zero_based, pre, call, ret, steps, loadVars>>

ParseEnd ==
    /\ pc = "loop"
    /\ idx = Len(ParseLines(input))
    /\ LET r == ParseFinal(nodes)
       IN  /\ nodes' = r.nodes
           /\ root' = r.root
           /\ err' = r.err
           /\ pc' = IF r.err = "none" THEN "done" ELSE "failed"
    /\ UNCHANGED <<input, zero_based, idx, cell_extractor, pre, call, ret, steps, loadVars>>

Render(style) ==
    /\ pc = "done"
    /\ pc' = "rendered"
    /\ call' = [NoCall EXCEPT !.op = "to_conll", !.style = style]
    /\ ret' = [NoRet EXCEPT !.err = to_conll(nodes, style).err,
                            !.lines = to_conll(nodes, style).lines]
    /\ UNCHANGED <<nodes, root, input, zero_based, idx, cell_extractor, err, pre, steps,
                   loadVars>>

NextParse ==
    \/ ParseLine
    \/ ParseEnd
    \/ \E style \in Styles : Render(style)

SpecParse == InitParse /\ [][NextParse]_vars

\* -- load: the file read, split into blocks, one graph constructed per block
InitLoad ==
    /\ \E bs \in SeqsUpTo(FileBlocks, MaxBlocks), trail \in 0..MaxTrail :
           /\ file = JoinBlocks(bs) \o Newlines(trail)
           /\ nblocks = Len(bs)
    /\ zero_based \in BOOLEAN
    /\ blocks = <<>> /\ graphs = <<>>
    /\ pc = "open" /\ err = "none"
    /\ nodes = EmptyGraph /\ root = NoneV
    /\ input = <<>> /\ idx = 0 /\ cell_extractor = 0
    /\ IdleCalls

LoadRead ==
    /\ pc = "open"
    /\ blocks' = SplitBlocks(file)
    /\ pc' = "build"
    /\ UNCHANGED <<nodes, root, pre, call, ret, steps, input, zero_based, idx,
                   cell_extractor, err, file, nblocks, graphs>>

LoadBuild ==
    /\ pc = "build"
    /\ Len(graphs) < Len(blocks)
    /\ LET g == Construct(blocks[Len(graphs) + 1], zero_based)
       IN  /\ err' = g.err
           /\ pc' = IF g.err = "none" THEN "build" ELSE "failed"
           /\ graphs' = IF g.err = "none"
                        THEN Append(graphs, [nodes |-> g.nodes, root |-> g.root])
                        ELSE graphs
    /\ UNCHANGED <<nodes, root, pre, call, ret, steps, input, zero_based, idx,
                   cell_extractor, file, nblocks, blocks>>

LoadReturn ==
    /\ pc = "build"
    /\ Len(graphs) = Len(blocks)
    /\ pc' = "returned"
    /\ UNCHANGED <<nodes, root, pre, call, ret, steps, input, zero_based, idx,
                   cell_extractor, err, file, nblocks, blocks, graphs>>

NextLoad == LoadRead \/ LoadBuild \/ LoadReturn

SpecLoad == InitLoad /\ [][NextLoad]_vars

\* the line-by-line run ends as the constructor taken whole does
ParseAgrees ==
    pc \in {"done", "failed"} /\ Len(input) > 0 =>
        /\ err = Construct(input, zero_based).err
        /\ nodes = Construct(input, zero_based).nodes
        /\ root = Construct(input, zero_based).root

(* ------------------------------- claims ------------------------------- *)
IsTop(node) == node.tag = StrV("TOP") /\ node.rel = StrV("TOP") /\ node.address = IntV(0)

\* C1: in every reachable state of the graph, address 0 is a key of the node
\* mapping and the node stored there is the TOP sentinel.
C1_TopAlwaysPresent == 0 \in DOMAIN nodes /\ IsTop(nodes[0])

\* the non-blank lines of a text all have n cells, with an integer in cell h
Styled(t, n, h) ==
    /\ Len(ParseLines(t)) >= 1
    /\ \A i \in 1..Len(ParseLines(t)) :
           Len(ParseLines(t)[i]) = n /\ IsIntLit(ParseLines(t)[i][h])

NoRootIn(t, r) == \A i \in 1..Len(ParseLines(t)) : ParseLines(t)[i][r] # "ROOT"

\* a 3-, 4- or 10-column record none of whose lines has rel "ROOT"; a
\* 3-column record has no rel column at all
RootlessRecord(t) ==
    \/ Styled(t, 3, 3)
    \/ Styled(t, 4, 3) /\ NoRootIn(t, 4)
    \/ Styled(t, 10, 7) /\ NoRootIn(t, 8)

Finished == pc \in {"done", "failed", "rendered"}

\* C2: constructing a graph from a 3-, 4- or 10-column record that has no line
\* whose rel is "ROOT" fails with the missing-root error; every 3-column
\* record fails this way.
C2_MissingRoot ==
    Finished /\ RootlessRecord(input) => pc = "failed" /\ err = "DependencyGraphError"

C2_Witness ==
    /\ pc = "failed" /\ err = "DependencyGraphError"
    /\ Styled(input, 3, 3)
    /\ \E i \in 1..Len(ParseLines(input)) : ParseLines(input)[i][3] = "0"

\* a 10-column record whose heads are written canonically, name TOP or a line
\* of the record, and give the record a root
ValidConll10(t) ==
    /\ Styled(t, 10, 7)
    /\ \A i \in 1..Len(ParseLines(t)) :
           LET h == ParseLines(t)[i][7]
           IN  /\ IsIntLit(h) /\ IntStr(IntOf(h)) = h
               /\ IntOf(h) \in 0..Len(ParseLines(t)) /\ IntOf(h) # i
    /\ \E i \in 1..Len(ParseLines(t)) :
           ParseLines(t)[i][7] = "0" /\ ParseLines(t)[i][8] = "ROOT"

\* C3: for a valid CoNLL 10-column input parsed with zero_based false, the
\* k-th line of to_conll(10) carries the word, lemma, ctag, tag, feats, head and
\* rel cells of the k-th non-blank input line.
C3_RoundTrip ==
    pc = "rendered" /\ call.style = 10 /\ ~zero_based /\ ValidConll10(input) =>
        /\ ret.err = "none"
        /\ Len(ret.lines) = Len(ParseLines(input))
        /\ \A k \in 1..Len(ParseLines(input)) :
               k <= Len(ret.lines) =>
                   SubSeq(ret.lines[k], 2, 8) = SubSeq(ParseLines(input)[k], 2, 8)

RECURSIVE TotalEntries(_)
TotalEntries(entries) ==
    IF Len(entries) = 0 THEN 0
    ELSE (IF Head(entries).key # StrV("_") THEN Len(Head(entries).vals) ELSE 0)
         + TotalEntries(Tail(entries))

\* C4: for every address a of the graph, left_children(a) + right_children(a)
\* returns, and equals the number of dependent entries of a in the buckets
\* other than "_".
C4_ChildrenSum ==
    \A a \in DOMAIN nodes :
        LET l == left_children(nodes, a)
            r == right_children(l.nodes, a)
        IN  /\ l.err = "none" /\ r.err = "none"
            /\ l.n + r.n = TotalEntries(nodes[a].deps.entries)

RECURSIVE FlatDependents(_)
FlatDependents(entries) ==
    IF Len(entries) = 0 THEN <<>> ELSE Head(entries).vals \o FlatDependents(Tail(entries))

\* the dependents a node held, each original replaced by the redirect
Redirected(d, originals, redirect) ==
    IF d.shape = "dict"
    THEN [i \in 1..Len(FlatDependents(d.entries)) |->
             IF FlatDependents(d.entries)[i] \in originals THEN IntV(redirect)
             ELSE IntV(FlatDependents(d.entries)[i])]
    ELSE [i \in 1..Len(d.items) |->
             IF InOriginals(d.items[i], originals) THEN IntV(redirect) ELSE d.items[i]]

Occurrences(sq, x) == Cardinality({i \in 1..Len(sq) : sq[i] = x})

SameItems(s1, s2) ==
    /\ Len(s1) = Len(s2)
    /\ \A i \in 1..Len(s1) : Occurrences(s1, s1[i]) = Occurrences(s2, s1[i])

\* C5: after redirect_arcs(originals, redirect) every node's deps is a flat list
\* of the dependent addresses the node held before the call, those in originals
\* replaced by redirect.
C5_RedirectReplaces ==
    call.op = "redirect_arcs" =>
        \A a \in DOMAIN nodes :
            /\ nodes[a].deps.shape = "list"
            /\ SameItems(nodes[a].deps.items,
                         Redirected(pre[a].deps, call.originals, call.b))

\* C6: a load that returns, of a file of K blank-line-separated non-empty
\* blocks, returns exactly K graphs, each with a root that is the node at the
\* first address of TOP's deps["ROOT"].
C6_OneGraphPerBlock ==
    pc = "returned" =>
        /\ Len(graphs) = nblocks
        /\ \A i \in 1..Len(graphs) :
               /\ graphs[i].root # NoneV
               /\ Len(DictGet(graphs[i].nodes[0].deps, StrV("ROOT"))) > 0
               /\ graphs[i].root = IntV(DictGet(graphs[i].nodes[0].deps, StrV("ROOT"))[1])

\* C7: to_conll(style), style in {3, 4, 10}, returns one line for every key of
\* the node mapping other than address 0 and no other line, in ascending
\* address order.
C7_OneLinePerNode ==
    call.op = "to_conll" /\ call.style \in Supported /\ pc = "api" =>
        LET keys == SortedKeys((DOMAIN nodes) \ {0})
        IN  /\ ret.err = "none"
            /\ Len(ret.lines) = Len(keys)
            /\ \A k \in 1..Len(keys) :
                   k <= Len(ret.lines) =>
                       ret.lines[k] = FormatLine(call.style, keys[k], nodes[keys[k]])

\* C8: the built-in extractor, once chosen from the first non-blank line, stays
\* the same for every later line of the parse and is applied to a later line
\* whatever its cell count (the unpacking then fails); only the first line can
\* raise the unsupported-format error.
C8_ExtractorFixed ==
    [][/\ cell_extractor # 0 => cell_extractor' = cell_extractor
       /\ err' = "ValueError:unsupported" => idx' = 1
       /\ (pc = "loop" /\ idx >= 1 /\ idx' = idx + 1
           /\ Len(ParseLines(input)[idx']) # cell_extractor)
              => err' = "ValueError:unpack"]_vars

C8_Witness ==
    /\ idx >= 2
    /\ cell_extractor \in Supported
    /\ Len(ParseLines(input)[idx]) \in Supported \ {cell_extractor}
    /\ err = "ValueError:unpack"

BarePlaceholder(node) ==
    /\ node.deps = EmptyDeps
    /\ \A name \in TemplateFields(10) : FieldOf(node, name).k = "absent"
    /\ node.address.k = "absent"

SameElsewhere(a) ==
    /\ DOMAIN nodes = (DOMAIN pre) \cup {a}
    /\ \A x \in (DOMAIN pre) \ {a} : nodes[x] = pre[x]

\* C9: contains_address(addr) returns whether addr is a key and changes
\* nothing; get_by_address(addr) changes nothing when addr is a key and
\* otherwise inserts a node with an empty deps map and no other field, so that
\* addr is a key afterwards.
C9_LookupEffects ==
    /\ call.op = "contains_address" => ret.b = (call.a \in DOMAIN pre) /\ nodes = pre
    /\ call.op = "get_by_address" =>
           /\ call.a \in DOMAIN nodes
           /\ IF call.a \in DOMAIN pre THEN nodes = pre
              ELSE SameElsewhere(call.a) /\ BarePlaceholder(nodes[call.a])

C9_Witness ==
    /\ call.op = "get_by_address"
    /\ call.a \notin DOMAIN pre
    /\ call.a \in DOMAIN nodes

\* C10: add_node populates the node at node['address'] only when the address is
\* not yet a key; when it is a key (TOP, a parsed node, a bare placeholder) the
\* graph is unchanged and nothing is reported.
C10_AddNodeOnlyWhenAbsent ==
    call.op = "add_node" =>
        IF call.a \in DOMAIN pre THEN nodes = pre /\ ret = NoRet
        ELSE /\ SameElsewhere(call.a)
             /\ nodes[call.a].address = call.node.address
             /\ nodes[call.a].word = call.node.word
             /\ nodes[call.a].tag = call.node.tag
             /\ nodes[call.a].rel = call.node.rel

C10_Witness ==
    /\ call.op = "add_node"
    /\ call.a \in DOMAIN pre
    /\ BarePlaceholder(pre[call.a])
    /\ nodes = pre

====
